---- MODULE Spec2Model ----
(***************************************************************************)
(* Model of crates/hdfs-common: the identifier allocator IdGen (ids.rs)    *)
(* and the path normalizer normalize / PathAbs (path.rs).                  *)
(*                                                                         *)
(* Two specifications share the module:                                    *)
(*   IdSpec   - callers of one IdGen, each next_* call an atomic fetch_add *)
(*              followed by the return of the fetched value, each peek_*   *)
(*              call an atomic load;                                       *)
(*   PathSpec - normalize, TryFrom<&str>, Deserialize, is_root and name    *)
(*              applied to an input string drawn from Inputs.              *)
(***************************************************************************)
EXTENDS Integers, Sequences, FiniteSets, TLC

VARIABLES
    \* ---- IdGen (ids.rs) ----
    seed_i,     \* start_inode given to IdGen::new
    seed_b,     \* start_block given to IdGen::new
    inode,      \* IdGen.inode : AtomicU64
    block,      \* IdGen.block : AtomicU64
    pc,         \* per caller: "idle", "inode_ret", "block_ret"
    id,         \* per caller: the local `id` holding fetch_add's result
    issued_i,   \* history: values fetched from inode, in modification order
    issued_b,   \* history: values fetched from block, in modification order
    ret_i,      \* history: values returned by completed next_inode() calls
    ret_b,      \* history: values returned by completed next_block() calls
    peek_i,     \* per caller: its last peek_inode() result not yet followed by
                \* its next_inode(): the value, and (history) how many inode
                \* allocations had taken effect when it was loaded
    peek_b,     \* per caller: the same for peek_block() / next_block()
    obs,        \* history, per caller inside a next_*() that follows its own
                \* peek: the peeked value, the value fetched, and the number
                \* of allocations that took effect in between
    peeks,      \* history: number of peek calls made
    \* ---- path (path.rs) ----
    input,      \* the &str handed to normalize / try_from / the deserializer
    phase,      \* position of the path scenario
    res,        \* Result<String> of normalize(input)
    res2,       \* Result<String> of normalize applied to the Ok value of res
    pathabs,    \* the PathAbs value built, or the error of try_from
    root_out,   \* result of PathAbs::is_root
    name_out    \* result of PathAbs::name

idVars ==
    <<seed_i, seed_b, inode, block, pc, id, issued_i, issued_b, ret_i, ret_b,
      peek_i, peek_b, obs, peeks>>
pathVars == <<input, phase, res, res2, pathabs, root_out, name_out>>
vars == <<idVars, pathVars>>

(***************************************************************************)
(* Bounds of the model.                                                    *)
(***************************************************************************)
Width == 2          \* bits of the modelled AtomicU64 (64 in the program)
NumCallers == 2     \* concurrent callers sharing one &IdGen
MaxCalls == 3       \* calls started in one behaviour, over both counters,
                    \* peeks included
MaxLen == 5         \* longest input over Alphabet that is enumerated in full
MaxCharLen == 3     \* longest input over CharAlphabet that is enumerated in full
MaxTail == 4        \* longest tail appended to a long prefix
Slack == 1          \* maximal segments in a long prefix beyond those filling the limit

Modulus == 2 ^ Width
Callers == 1..NumCallers
U64 == 0..(Modulus - 1)

(***************************************************************************)
(* IdGen                                                                   *)
(***************************************************************************)

\* A fetch_add that loses the increment.
FetchAddStuck(v) == v

\* A saturating add: the counter sticks at the largest value.
FetchAddSaturating(v) == IF v + 1 = Modulus THEN v ELSE v + 1

\* AtomicU64::fetch_add(1, Relaxed): the new value, wrapping at the width.
FetchAdd(v) == (v + 1) % Modulus

\* A load that returns the value last handed out instead of the next one.
LoadPrevious(v) == (v + Modulus - 1) % Modulus

\* AtomicU64::load(Relaxed): the current value of the counter.
Load(v) == v

NoPeek == [val |-> -1, at |-> 0]
NoObs == [peeked |-> -1, got |-> 0, between |-> 0]

\* What a caller that peeked `pk` observes when its fetch returns `got` as
\* allocation number `n` (counted from 0) of the counter.
Observe(pk, got, n) ==
    IF pk.val = -1 THEN NoObs
    ELSE [peeked |-> pk.val, got |-> got, between |-> n - pk.at]

NoResult == [tag |-> "None", val |-> <<>>, path |-> <<>>, reason |-> ""]

PathIdle ==
    /\ input = <<>>
    /\ phase = "off"
    /\ res = NoResult
    /\ res2 = NoResult
    /\ pathabs = NoResult
    /\ root_out = "none"
    /\ name_out = NoResult

\* IdGen::new(start_inode, start_block)
IdInit ==
    /\ seed_i \in U64
    /\ seed_b \in U64
    /\ inode = seed_i
    /\ block = seed_b
    /\ pc = [t \in Callers |-> "idle"]
    /\ id = [t \in Callers |-> 0]
    /\ issued_i = <<>>
    /\ issued_b = <<>>
    /\ ret_i = <<>>
    /\ ret_b = <<>>
    /\ peek_i = [t \in Callers |-> NoPeek]
    /\ peek_b = [t \in Callers |-> NoPeek]
    /\ obs = [t \in Callers |-> NoObs]
    /\ peeks = 0
    /\ PathIdle

CallsStarted == Len(issued_i) + Len(issued_b) + peeks

\* next_inode, first statement: let id = self.inode.fetch_add(1, Relaxed)
NextInodeFetch(t) ==
    /\ pc[t] = "idle"
    /\ CallsStarted < MaxCalls
    /\ id' = [id EXCEPT ![t] = inode]
    /\ inode' = FetchAdd(inode)
    /\ issued_i' = Append(issued_i, inode)
    /\ pc' = [pc EXCEPT ![t] = "inode_ret"]
    /\ obs' = [obs EXCEPT ![t] = Observe(peek_i[t], inode, Len(issued_i))]
    /\ peek_i' = [peek_i EXCEPT ![t] = NoPeek]
    /\ UNCHANGED <<seed_i, seed_b, block, issued_b, ret_i, ret_b, peek_b, peeks, pathVars>>

\* next_inode, second statement: INodeId(id)
NextInodeReturn(t) ==
    /\ pc[t] = "inode_ret"
    /\ ret_i' = Append(ret_i, id[t])
    /\ id' = [id EXCEPT ![t] = 0]
    /\ pc' = [pc EXCEPT ![t] = "idle"]
    /\ obs' = [obs EXCEPT ![t] = NoObs]
    /\ UNCHANGED <<seed_i, seed_b, inode, block, issued_i, issued_b, ret_b,
                   peek_i, peek_b, peeks, pathVars>>

\* A next_block that was copied from next_inode and still uses self.inode.
NextBlockFetchOnInode(t) ==
    /\ pc[t] = "idle"
    /\ CallsStarted < MaxCalls
    /\ id' = [id EXCEPT ![t] = inode]
    /\ inode' = (inode + 1) % Modulus
    /\ issued_b' = Append(issued_b, inode)
    /\ pc' = [pc EXCEPT ![t] = "block_ret"]
    /\ obs' = [obs EXCEPT ![t] = Observe(peek_b[t], inode, Len(issued_b))]
    /\ peek_b' = [peek_b EXCEPT ![t] = NoPeek]
    /\ UNCHANGED <<seed_i, seed_b, block, issued_i, ret_i, ret_b, peek_i, peeks, pathVars>>

\* next_block, first statement: let id = self.block.fetch_add(1, Relaxed)
NextBlockFetch(t) ==
    /\ pc[t] = "idle"
    /\ CallsStarted < MaxCalls
    /\ id' = [id EXCEPT ![t] = block]
    /\ block' = FetchAdd(block)
    /\ issued_b' = Append(issued_b, block)
    /\ pc' = [pc EXCEPT ![t] = "block_ret"]
    /\ obs' = [obs EXCEPT ![t] = Observe(peek_b[t], block, Len(issued_b))]
    /\ peek_b' = [peek_b EXCEPT ![t] = NoPeek]
    /\ UNCHANGED <<seed_i, seed_b, inode, issued_i, ret_i, ret_b, peek_i, peeks, pathVars>>

\* next_block, second statement: BlockId(id)
NextBlockReturn(t) ==
    /\ pc[t] = "block_ret"
    /\ ret_b' = Append(ret_b, id[t])
    /\ id' = [id EXCEPT ![t] = 0]
    /\ pc' = [pc EXCEPT ![t] = "idle"]
    /\ obs' = [obs EXCEPT ![t] = NoObs]
    /\ UNCHANGED <<seed_i, seed_b, inode, block, issued_i, issued_b, ret_i,
                   peek_i, peek_b, peeks, pathVars>>

\* peek_inode: self.inode.load(Relaxed)
PeekInode(t) ==
    /\ pc[t] = "idle"
    /\ CallsStarted < MaxCalls
    /\ peek_i' = [peek_i EXCEPT ![t] = [val |-> Load(inode), at |-> Len(issued_i)]]
    /\ peeks' = peeks + 1
    /\ UNCHANGED <<seed_i, seed_b, inode, block, pc, id, issued_i, issued_b,
                   ret_i, ret_b, peek_b, obs, pathVars>>

\* peek_block: self.block.load(Relaxed)
PeekBlock(t) ==
    /\ pc[t] = "idle"
    /\ CallsStarted < MaxCalls
    /\ peek_b' = [peek_b EXCEPT ![t] = [val |-> Load(block), at |-> Len(issued_b)]]
    /\ peeks' = peeks + 1
    /\ UNCHANGED <<seed_i, seed_b, inode, block, pc, id, issued_i, issued_b,
                   ret_i, ret_b, peek_i, obs, pathVars>>

IdNext ==
    \E t \in Callers :
        \/ NextInodeFetch(t)
        \/ NextInodeReturn(t)
        \/ NextBlockFetch(t)
        \/ NextBlockReturn(t)
        \/ PeekInode(t)
        \/ PeekBlock(t)

IdSpec == IdInit /\ [][IdNext]_vars

(***************************************************************************)
(* Helpers used to state the properties.                                   *)
(***************************************************************************)
Values(s) == {s[i] : i \in DOMAIN s}
Distinct(s) == \A i, j \in DOMAIN s : i # j => s[i] # s[j]
Quiescent == \A t \in Callers : pc[t] = "idle"

\* The n values that follow seed in the counter's (wrapping) arithmetic.
RangeFrom(seed, n) == {(seed + k) % Modulus : k \in 0..(n - 1)}

Increasing(seq, seed) ==
    \A i \in DOMAIN seq :
        /\ seq[i] >= seed
        /\ \A j \in DOMAIN seq : j < i => seq[j] < seq[i]

\* C2 as stated: for every seed of the full unsigned range, every value issued
\* by a counter is >= its seed and strictly greater than every value the same
\* counter issued before.
C2_AlwaysIncreasing ==
    /\ Increasing(issued_i, seed_i)
    /\ Increasing(issued_b, seed_b)

IncreasingUntilWrap(seq, seed) ==
    \A i \in DOMAIN seq :
        seed + (i - 1) < Modulus =>
            /\ seq[i] >= seed
            /\ \A j \in DOMAIN seq : j < i => seq[j] < seq[i]

\* C2 amended: as long as the counter has not wrapped (seed + number of earlier
\* allocations <= 2^w - 1), every value issued is >= the seed and strictly
\* greater than every value issued before by the same counter; and among the
\* first 2^w allocations of a counter no value repeats.
C2_IncreasingUntilWrap ==
    /\ IncreasingUntilWrap(issued_i, seed_i)
    /\ IncreasingUntilWrap(issued_b, seed_b)
    /\ Len(issued_i) <= Modulus => Distinct(issued_i)
    /\ Len(issued_b) <= Modulus => Distinct(issued_b)

\* C2 witness: a counter that issued three values without wrapping.
C2_Witness ==
    /\ Len(issued_i) >= 3
    /\ seed_i + Len(issued_i) <= Modulus

(***************************************************************************)
(* Paths.  A string is a sequence of characters; a character is one of the *)
(* tokens below.  "X255" and "X254" are run-length tokens: a run of        *)
(* MAX_NAME_LEN (resp. MAX_NAME_LEN - 1) one-byte ordinary characters 'x', *)
(* which no check of path.rs tells apart from one another, so that strings *)
(* at the program's real length limits stay short sequences.               *)
(***************************************************************************)
MAX_NAME_LEN == 255
MAX_PATH_LEN == 4096

\* UTF-8 length of a character (of a run, its total length).
Bytes(ch) ==
    CASE ch = "X255" -> MAX_NAME_LEN
      [] ch = "X254" -> MAX_NAME_LEN - 1
      [] ch \in {"DIV", "EACUTE"} -> 2      \* U+00F7, U+00E9
      [] OTHER -> 1

RECURSIVE ByteLen(_)
\* str::len / as_bytes().len()
ByteLen(s) == IF s = <<>> THEN 0 ELSE Bytes(Head(s)) + ByteLen(Tail(s))

\* char::is_control on the modelled characters: U+0000, U+0001, U+007F.
is_control(ch) == ch \in {"NUL", "SOH", "DEL"}

\* A has_forbidden that forgets U+00F7.
has_forbidden_no_div(ch) == ch = "NUL" \/ is_control(ch)

has_forbidden(ch) == ch = "NUL" \/ (is_control(ch) \/ ch = "DIV")

Ok(s) == [tag |-> "Ok", val |-> s, path |-> <<>>, reason |-> ""]
InvalidPath(in, why) == [tag |-> "Err", val |-> <<>>, path |-> in, reason |-> why]

RECURSIVE SplitAcc(_, _, _)
SplitAcc(s, cur, acc) ==
    IF s = <<>> THEN Append(acc, cur)
    ELSE IF Head(s) = "/" THEN SplitAcc(Tail(s), <<>>, Append(acc, cur))
    ELSE SplitAcc(Tail(s), Append(cur, Head(s)), acc)

\* str::split('/'): the pieces between separators, empty pieces included.
Split(s) == SplitAcc(s, <<>>, <<>>)

\* A ".." that is skipped like ".".
PopIgnored(stack) == stack

\* A pop that removes the oldest segment instead of the newest.
PopFront(stack) == IF stack = <<>> THEN stack ELSE Tail(stack)

\* stack.pop(), its result dropped: a no-op on the empty stack.
Pop(stack) == IF stack = <<>> THEN stack ELSE SubSeq(stack, 1, Len(stack) - 1)

\* A length check that is off by one.
SegTooLongOffByOne(seg) == ByteLen(seg) >= MAX_NAME_LEN

\* other.as_bytes().len() > MAX_NAME_LEN
SegTooLong(seg) == ByteLen(seg) > MAX_NAME_LEN

RECURSIVE SegLoop(_, _)
\* for seg in input.split('/') { match seg { ... } }
SegLoop(segs, stack) ==
    IF segs = <<>> THEN [long |-> FALSE, stack |-> stack]
    ELSE LET seg == Head(segs) IN
         IF seg = <<>> \/ seg = <<".">> THEN SegLoop(Tail(segs), stack)
         ELSE IF seg = <<".", ".">> THEN SegLoop(Tail(segs), Pop(stack))
         ELSE IF SegTooLong(seg) THEN [long |-> TRUE, stack |-> stack]
         ELSE SegLoop(Tail(segs), Append(stack, seg))

RECURSIVE Join(_)
\* stack.join("/")
Join(stack) ==
    IF stack = <<>> THEN <<>>
    ELSE IF Len(stack) = 1 THEN stack[1]
    ELSE stack[1] \o <<"/">> \o Join(Tail(stack))

\* An assembly that forgets s.push('/').
AssembleNoSlash(stack) == IF stack = <<>> THEN <<"/">> ELSE Join(stack)

\* let out = if stack.is_empty() { "/" } else { "/" + stack.join("/") }
Assemble(stack) == IF stack = <<>> THEN <<"/">> ELSE <<"/">> \o Join(stack)

\* out.as_bytes().len() > MAX_PATH_LEN
PathTooLong(out) == ByteLen(out) > MAX_PATH_LEN

\* A normalize whose first two checks are swapped.
normalize_swapped(in) ==
    IF \E i \in DOMAIN in : has_forbidden(in[i])
    THEN InvalidPath(in, "control character not allowed")
    ELSE IF in = <<>> \/ Head(in) # "/"
    THEN InvalidPath(in, "must be absolut")
    ELSE LET r == SegLoop(Split(in), <<>>) IN
         IF r.long THEN InvalidPath(in, "segement too long")
         ELSE LET out == Assemble(r.stack) IN
              IF PathTooLong(out) THEN InvalidPath(in, "path too long")
              ELSE Ok(out)

normalize(in) ==
    IF in = <<>> \/ Head(in) # "/"
    THEN InvalidPath(in, "must be absolut")
    ELSE IF \E i \in DOMAIN in : has_forbidden(in[i])
    THEN InvalidPath(in, "control character not allowed")
    ELSE LET r == SegLoop(Split(in), <<>>) IN
         IF r.long THEN InvalidPath(in, "segement too long")
         ELSE LET out == Assemble(r.stack) IN
              IF PathTooLong(out) THEN InvalidPath(in, "path too long")
              ELSE Ok(out)

\* impl TryFrom<&str> for PathAbs: Ok(PathAbs(normalize(value)?))
try_from(value) == normalize(value)

\* #[derive(Deserialize)] #[serde(transparent)] struct PathAbs(String):
\* the derived impl wraps whatever string it reads.
deserialize(value) == Ok(value)

\* PathAbs::is_root
is_root(p) == p = <<"/">>

\* A name that returns the first piece instead of the last.
name_first(p) ==
    IF is_root(p) THEN Ok(<<"/">>)
    ELSE LET parts == Split(p) IN
         IF parts = <<>> THEN [tag |-> "Panic", val |-> <<>>, path |-> <<>>, reason |-> "unwrap"]
         ELSE Ok(parts[1])

\* PathAbs::name: self.0.rsplit('/').next().unwrap()
name(p) ==
    IF is_root(p) THEN Ok(<<"/">>)
    ELSE LET parts == Split(p) IN
         IF parts = <<>> THEN [tag |-> "Panic", val |-> <<>>, path |-> <<>>, reason |-> "unwrap"]
         ELSE Ok(parts[Len(parts)])

(***************************************************************************)
(* The inputs of PathSpec.                                                 *)
(***************************************************************************)
SeqsUpTo(A, n) == UNION {[1..k -> A] : k \in 0..n}

RECURSIVE Repeat(_, _)
Repeat(unit, k) == IF k = 0 THEN <<>> ELSE unit \o Repeat(unit, k - 1)

Alphabet == {"/", ".", "a", "SOH", "X255"}
CharAlphabet == {"/", "a", "NUL", "SOH", "DEL", "DIV", "EACUTE"}
TailAlphabet == {"/", ".", "a", "X254", "EACUTE"}

\* The inputs of the spec's literal scenarios and of the tests of path.rs.
Scenario1 == <<"/", "a", "/", "/", "b", "/", ".", ".", "/", "c", "/", ".", "/", "d", "/">>
Scenarios ==
    { Scenario1,
      <<"/", "a", "/", "b", "/", ".", ".", "/", "c">>,
      <<"/", ".", ".", "/", "a">>,
      <<"/", "a", "/", ".", ".", "/", ".", ".", "/", ".", ".">>,
      <<"a", "/", "b">>,
      <<"/", "a", "/", "/", "b", "/", "/", "/", "c", "/">>,
      <<"/", "a", "/", ".", "/", "b", "/", ".", "/", "/", "c">>,
      <<"/", "a", "/", "SOH">>,
      <<"/", "X255", "a">>,
      <<"/", "x", "/", "y">> }

\* How many segments of MAX_NAME_LEN bytes fill MAX_PATH_LEN exactly.
FullSegs == MAX_PATH_LEN \div (MAX_NAME_LEN + 1)

LongInputs ==
    { Repeat(<<"/", "X255">>, k) \o t :
        k \in (FullSegs - 2)..(FullSegs + Slack), t \in SeqsUpTo(TailAlphabet, MaxTail) }

Inputs ==
    SeqsUpTo(Alphabet, MaxLen) \cup SeqsUpTo(CharAlphabet, MaxCharLen)
        \cup Scenarios \cup LongInputs

IdIdle ==
    /\ seed_i = 0
    /\ seed_b = 0
    /\ inode = 0
    /\ block = 0
    /\ pc = [t \in Callers |-> "idle"]
    /\ id = [t \in Callers |-> 0]
    /\ issued_i = <<>>
    /\ issued_b = <<>>
    /\ ret_i = <<>>
    /\ ret_b = <<>>
    /\ peek_i = [t \in Callers |-> NoPeek]
    /\ peek_b = [t \in Callers |-> NoPeek]
    /\ obs = [t \in Callers |-> NoObs]
    /\ peeks = 0

PathInit ==
    /\ input \in Inputs
    /\ phase = "input"
    /\ res = NoResult
    /\ res2 = NoResult
    /\ pathabs = NoResult
    /\ root_out = "none"
    /\ name_out = NoResult
    /\ IdIdle

\* let n1 = normalize(s)
Normalize ==
    /\ phase = "input"
    /\ res' = normalize(input)
    /\ phase' = "normalized"
    /\ UNCHANGED <<input, res2, pathabs, root_out, name_out, idVars>>

\* let n2 = normalize(&n1), for an n1 that is Ok
Renormalize ==
    /\ phase = "normalized"
    /\ res.tag = "Ok"
    /\ res2' = normalize(res.val)
    /\ phase' = "renormalized"
    /\ UNCHANGED <<input, res, pathabs, root_out, name_out, idVars>>

\* PathAbs::try_from(input)
TryFrom ==
    /\ phase = "input"
    /\ pathabs' = try_from(input)
    /\ phase' = "try_from"
    /\ UNCHANGED <<input, res, res2, root_out, name_out, idVars>>

\* PathAbs deserialized from the plain string input
Deserialize ==
    /\ phase = "input"
    /\ pathabs' = deserialize(input)
    /\ phase' = "deserialized"
    /\ UNCHANGED <<input, res, res2, root_out, name_out, idVars>>

HasPathAbs == phase \in {"try_from", "deserialized"} /\ pathabs.tag = "Ok"

\* p.is_root()
IsRoot ==
    /\ HasPathAbs
    /\ root_out = "none"
    /\ root_out' = IF is_root(pathabs.val) THEN "true" ELSE "false"
    /\ UNCHANGED <<input, phase, res, res2, pathabs, name_out, idVars>>

\* p.name()
Name ==
    /\ HasPathAbs
    /\ name_out = NoResult
    /\ name_out' = name(pathabs.val)
    /\ UNCHANGED <<input, phase, res, res2, pathabs, root_out, idVars>>

PathNext ==
    \/ Normalize
    \/ Renormalize
    \/ TryFrom
    \/ Deserialize
    \/ IsRoot
    \/ Name

PathSpec == PathInit /\ [][PathNext]_vars

(***************************************************************************)
(* Vocabulary of the path properties, stated without normalize.            *)
(***************************************************************************)
ForbiddenChars == {"NUL", "SOH", "DEL", "DIV"}
DotSegs == {<<>>, <<".">>, <<".", ".">>}

IsAbsolute(s) == s # <<>> /\ s[1] = "/"
HasForbiddenChar(s) == \E i \in DOMAIN s : s[i] \in ForbiddenChars
Segments(s) == LET parts == Split(s) IN {parts[i] : i \in DOMAIN parts}
HasLongSegment(s) == \E seg \in Segments(s) \ DotSegs : ByteLen(seg) >= MAX_NAME_LEN + 1

Front(s) == SubSeq(s, 1, Len(s) - 1)

RECURSIVE Retained(_)
\* The segments retained after processing segs left to right: "" and "." are
\* skipped, ".." removes the most recently retained segment if there is one,
\* any other segment is retained.
Retained(segs) ==
    IF segs = <<>> THEN <<>>
    ELSE LET before == Retained(Front(segs))
             last == segs[Len(segs)]
         IN  IF last \in {<<>>, <<".">>} THEN before
             ELSE IF last = <<".", ".">>
                  THEN (IF before = <<>> THEN <<>> ELSE Front(before))
             ELSE Append(before, last)

RECURSIVE SlashJoined(_)
\* "/" followed by each retained segment: "/s1/s2/.../sn" ("" when none).
SlashJoined(segs) ==
    IF segs = <<>> THEN <<>> ELSE SlashJoined(Front(segs)) \o <<"/">> \o segs[Len(segs)]

\* The canonical form the description assigns to an input.
Canonical(s) ==
    LET kept == Retained(Split(s)) IN IF kept = <<>> THEN <<"/">> ELSE SlashJoined(kept)

Str_a_b_c_d == <<"/", "a", "/", "b", "/", "c", "/", "d">>
Str_a_c_d == <<"/", "a", "/", "c", "/", "d">>

\* C3 as stated: normalize("/a//b/../c/./d/") succeeds and returns "/a/b/c/d".
C3_Scenario1_abcd ==
    (phase = "normalized" /\ input = Scenario1) => res = Ok(Str_a_b_c_d)

\* C3 amended: normalize("/a//b/../c/./d/") succeeds and returns "/a/c/d"
\* (the ".." removes the segment "b" retained just before it).
C3_Scenario1_acd ==
    (phase = "normalized" /\ input = Scenario1) => res = Ok(Str_a_c_d)

\* C3 witness: normalize has been applied to "/a//b/../c/./d/" and succeeded.
C3_Witness == phase = "normalized" /\ input = Scenario1 /\ res.tag = "Ok"

\* A string in canonical form, as the data model describes a PathAbs.
IsCanonical(s) ==
    /\ IsAbsolute(s)
    /\ s # <<"/">> =>
          \A seg \in Segments(Tail(s)) :
              seg \notin DotSegs /\ ByteLen(seg) <= MAX_NAME_LEN
    /\ ByteLen(s) <= MAX_PATH_LEN
    /\ \A i \in DOMAIN s : s[i] \notin {"NUL", "SOH", "DEL"}
    /\ normalize(s) = Ok(s)

\* C4 as stated: every PathAbs value obtained through the public interface,
\* by TryFrom<&str> or by deserializing its plain-string form, holds a
\* canonical string.
C4_PathAbsCanonical == HasPathAbs => IsCanonical(pathabs.val)

\* C5: normalize is idempotent: when normalize(s) returned Ok(n), normalize(n)
\* returns Ok(n) too, so it fails with none of the four reasons.
C5_Idempotent == phase = "renormalized" => (res2.tag = "Ok" /\ res2 = res)

\* C5 witness: a second normalization of a result that differs from the input
\* and holds at least two segments.
C5_Witness ==
    /\ phase = "renormalized"
    /\ res.val # input
    /\ Len(Split(res.val)) >= 3

\* C6: every string n returned by a successful normalize starts with '/';
\* unless n is the root "/", the segments of n after its leading '/' are all
\* non-empty, neither "." nor "..", and at most 255 bytes, and n does not end
\* with '/'; n is at most 4096 bytes long and holds no NUL, control character
\* or U+00F7.
C6_AbsoluteInvariant ==
    (phase = "normalized" /\ res.tag = "Ok") =>
        LET n == res.val IN
        /\ IsAbsolute(n)
        /\ n # <<"/">> =>
              /\ \A seg \in Segments(Tail(n)) :
                    seg \notin DotSegs /\ ByteLen(seg) <= MAX_NAME_LEN
              /\ n[Len(n)] # "/"
        /\ ByteLen(n) <= MAX_PATH_LEN
        /\ ~HasForbiddenChar(n)

\* C6 witness: a successful normalization that had something to remove and
\* returned a path of at least two segments.
C6_Witness ==
    /\ phase = "normalized"
    /\ res.tag = "Ok"
    /\ res.val # input
    /\ Len(Split(res.val)) >= 3
    /\ \E seg \in Segments(input) : seg = <<".", ".">>

\* C7: normalize reports the first failing check in the order (1) not
\* absolute, (2) forbidden character, (3) segment longer than 255 bytes,
\* (4) assembled result longer than 4096 bytes; an input violating several
\* checks gets the reason of the earliest; every error is InvalidPath carrying
\* the original input unchanged.
C7_RejectionOrder ==
    phase = "normalized" =>
        /\ ~IsAbsolute(input) => res = InvalidPath(input, "must be absolut")
        /\ (IsAbsolute(input) /\ HasForbiddenChar(input)) =>
              res = InvalidPath(input, "control character not allowed")
        /\ (IsAbsolute(input) /\ ~HasForbiddenChar(input) /\ HasLongSegment(input)) =>
              res = InvalidPath(input, "segement too long")
        /\ (IsAbsolute(input) /\ ~HasForbiddenChar(input) /\ ~HasLongSegment(input)
              /\ ByteLen(Canonical(input)) > MAX_PATH_LEN) =>
              res = InvalidPath(input, "path too long")
        /\ res.tag = "Err" => (res.path = input /\ res.val = <<>>)
        /\ res.tag \in {"Ok", "Err"}

\* C7 witness: an absolute input with an over-long segment followed by a
\* forbidden character, rejected for the forbidden character.
C7_Witness ==
    /\ phase = "normalized"
    /\ IsAbsolute(input) /\ HasLongSegment(input) /\ HasForbiddenChar(input)
    /\ res.reason = "control character not allowed"

\* C8: for an absolute input free of forbidden characters: a segment (other
\* than "", "." and "..") of 256 bytes or more is rejected with "segement too
\* long", also when a later ".." would remove it; otherwise an assembled
\* result of 4097 bytes or more is rejected with "path too long"; otherwise
\* the input is accepted, so 255-byte segments and a 4096-byte result pass,
\* whatever the length of the raw input.
C8_LengthBounds ==
    (phase = "normalized" /\ IsAbsolute(input) /\ ~HasForbiddenChar(input)) =>
        IF HasLongSegment(input)
        THEN res.tag = "Err" /\ res.reason = "segement too long"
        ELSE IF ByteLen(Canonical(input)) >= MAX_PATH_LEN + 1
        THEN res.tag = "Err" /\ res.reason = "path too long"
        ELSE res.tag = "Ok"

\* C8 witness: an accepted input longer than 4096 bytes whose result is
\* exactly 4096 bytes long and made of segments of exactly 255 bytes.
C8_Witness ==
    /\ phase = "normalized"
    /\ res.tag = "Ok"
    /\ ByteLen(res.val) = MAX_PATH_LEN
    /\ ByteLen(input) > MAX_PATH_LEN
    /\ \A seg \in Segments(Tail(res.val)) : ByteLen(seg) = MAX_NAME_LEN

\* C9: for a PathAbs p built by TryFrom<&str>: is_root() is true exactly when
\* p is "/"; name() never fails; it returns "/" for the root and otherwise the
\* substring after the last '/', which is non-empty, holds no '/', and is the
\* last segment left on the normalizer's stack.
C9_NameAndIsRoot ==
    (phase = "try_from" /\ pathabs.tag = "Ok") =>
        LET p == pathabs.val
            nm == name_out.val
            stack == SegLoop(Split(input), <<>>).stack
        IN
        /\ root_out # "none" => (root_out = "true" <=> p = <<"/">>)
        /\ name_out # NoResult =>
              /\ name_out.tag = "Ok"
              /\ p = <<"/">> => nm = <<"/">>
              /\ p # <<"/">> =>
                    /\ nm # <<>>
                    /\ \A i \in DOMAIN nm : nm[i] # "/"
                    /\ Len(p) > Len(nm)
                    /\ p[Len(p) - Len(nm)] = "/"
                    /\ SubSeq(p, Len(p) - Len(nm) + 1, Len(p)) = nm
                    /\ stack # <<>> /\ nm = stack[Len(stack)]

\* C9 witness: is_root and name both called on a PathAbs of two or more
\* segments built by try_from.
C9_Witness ==
    /\ phase = "try_from" /\ pathabs.tag = "Ok"
    /\ root_out = "false"
    /\ name_out.tag = "Ok"
    /\ Len(Split(pathabs.val)) >= 3

Str_dotdot_a == <<"/", ".", ".", "/", "a">>
Str_a_up3 == <<"/", "a", "/", ".", ".", "/", ".", ".", "/", ".", ".">>

\* C10: for an absolute input free of forbidden characters whose segments are
\* all at most 255 bytes, ".." removes the most recently retained segment if
\* there is one and otherwise does nothing, and causes no error: the only
\* rejection left is the length of the result, and an accepted result is "/"
\* plus the retained segments joined by "/" ("/" when none is retained);
\* normalize("/../a") = "/a" and normalize("/a/../../..") = "/".
C10_DotDotClamps ==
    (phase = "normalized" /\ IsAbsolute(input) /\ ~HasForbiddenChar(input)
        /\ ~HasLongSegment(input)) =>
        /\ res.tag = "Ok" => res.val = Canonical(input)
        /\ res.tag = "Err" =>
              (res.reason = "path too long" /\ ByteLen(Canonical(input)) > MAX_PATH_LEN)
        /\ input = Str_dotdot_a => res = Ok(<<"/", "a">>)
        /\ input = Str_a_up3 => res = Ok(<<"/">>)

\* C10 witness: an accepted input in which one ".." removes a retained segment
\* and another is met while nothing is retained.
C10_Witness ==
    /\ phase = "normalized"
    /\ res.tag = "Ok"
    /\ LET segs == Split(input) IN
       /\ \E i \in DOMAIN segs :
             segs[i] = <<".", ".">> /\ Retained(SubSeq(segs, 1, i - 1)) # <<>>
       /\ \E i \in DOMAIN segs :
             segs[i] = <<".", ".">> /\ Retained(SubSeq(segs, 1, i - 1)) = <<>>

(***************************************************************************)
(* Peeking.                                                                *)
(***************************************************************************)
PeekExact(pk, seed) ==
    \A t \in Callers :
        pk[t].val # -1 => pk[t].val = (seed + pk[t].at) % Modulus

\* C11 as stated: peek_inode() returns the seed plus the number of
\* next_inode() calls that have taken effect when it executes (the sum taken
\* in the counter's unsigned arithmetic); a next_inode() by the same caller
\* after its peek returns the peeked value when no allocation came in between,
\* and in every case a value greater than or equal to the peeked value.  Same
\* for peek_block() / next_block().
C11_PeekThenNextAtLeast ==
    /\ PeekExact(peek_i, seed_i)
    /\ PeekExact(peek_b, seed_b)
    /\ \A t \in Callers :
          obs[t].peeked # -1 =>
              /\ obs[t].between = 0 => obs[t].got = obs[t].peeked
              /\ obs[t].got >= obs[t].peeked

\* C11 amended: peek_inode() returns the seed plus the number of next_inode()
\* calls that have taken effect (IdGen::new(1,1), two allocations, peek = 3);
\* a next_inode() by the same caller after its peek returns the peeked value
\* plus the number of allocations that took effect in between, in the
\* counter's wrapping arithmetic: the peeked value itself when there was none,
\* and a value greater than or equal to the peeked value as long as the
\* counter did not wrap in between.  Same for peek_block() / next_block().
C11_PeekThenNext ==
    /\ PeekExact(peek_i, seed_i)
    /\ PeekExact(peek_b, seed_b)
    /\ \A t \in Callers :
          (seed_i = 1 /\ peek_i[t].val # -1 /\ peek_i[t].at = 2) => peek_i[t].val = 3
    /\ \A t \in Callers :
          obs[t].peeked # -1 =>
              /\ obs[t].got = (obs[t].peeked + obs[t].between) % Modulus
              /\ obs[t].between = 0 => obs[t].got = obs[t].peeked
              /\ obs[t].peeked + obs[t].between < Modulus => obs[t].got >= obs[t].peeked

\* C11 witness: a caller peeked the inode counter, another caller allocated,
\* and the first caller's next_inode() then fetched a value strictly greater
\* than the one it had peeked.
C11_Witness ==
    \E t \in Callers :
        /\ pc[t] = "inode_ret"
        /\ obs[t].peeked # -1
        /\ obs[t].between > 0
        /\ obs[t].got > obs[t].peeked

\* C12: the two counters are independent and peeking only observes: a step in
\* which a next_inode() takes effect advances the inode counter by exactly one
\* (in the counter's unsigned arithmetic) and leaves the block counter as it
\* was; a step in which a next_block() takes effect does the converse; a peek
\* and the return of a fetched value leave both counters as they were.
C12_IndependentCounters ==
    [][ /\ Len(issued_i') = Len(issued_i) + 1 =>
              (inode' = (inode + 1) % Modulus /\ block' = block)
        /\ Len(issued_b') = Len(issued_b) + 1 =>
              (block' = (block + 1) % Modulus /\ inode' = inode)
        /\ peeks' = peeks + 1 => (inode' = inode /\ block' = block)
        /\ (Len(ret_i') # Len(ret_i) \/ Len(ret_b') # Len(ret_b)) =>
              (inode' = inode /\ block' = block)
      ]_vars

\* C12 witness: each counter has been advanced once, one of them has been
\* peeked since, and each holds its seed plus its own single allocation.
C12_Witness ==
    /\ Len(issued_i) = 1 /\ Len(issued_b) = 1
    /\ peeks = 1
    /\ \E t \in Callers : peek_i[t].val # -1 \/ peek_b[t].val # -1
    /\ inode = (seed_i + 1) % Modulus
    /\ block = (seed_b + 1) % Modulus

====
